---- MODULE Spec2Model ----
(***************************************************************************)
(* Benchmark execution and metrics extraction: the ELKI PCA benchmark      *)
(* (methods/elki/pca.py) and the mlpack GMM benchmark                      *)
(* (methods/mlpack/gmm.py).                                                *)
(*                                                                         *)
(* Byte strings and text are sequences of one-character strings.  A float  *)
(* is the exact decimal it denotes, held as an integer number of           *)
(* microseconds (1.5 seconds is 1500000), so x / 1000. is exact for every  *)
(* integer x.  The character "xFF" stands for a byte that is not valid     *)
(* UTF-8.  Number texts are built from digits, '.', ',' and white space;   *)
(* signs, exponents, "inf" and "nan" are outside the alphabet.             *)
(*                                                                         *)
(* Log.Info, Log.Warn and Log.Fatal (util/log.py) only print: a handler    *)
(* continues after them, which is why the code follows Log.Fatal with      *)
(* "return -1".  Printing is not part of the state.                        *)
(*                                                                         *)
(* One benchmark object is alive at a time (obj); fs records which of the  *)
(* artifact files exist in the working directory; call and result record   *)
(* the inputs and the outcome of the last call.                            *)
(***************************************************************************)
EXTENDS Integers, Sequences, FiniteSets, TLC

VARIABLES obj, fs, call, result

vars == <<obj, fs, call, result>>

(***************************************************************************)
(* Bounds                                                                  *)
(***************************************************************************)
MaxNumLen == 3
MaxTimeout == 1
MaxDur == 2
MaxVal == 1

(***************************************************************************)
(* Text helpers                                                            *)
(***************************************************************************)
Ws == {" ", "\n"}

Digit == {"0", "1", "2", "3", "4", "5", "6", "7", "8", "9"}

DigitVal(c) ==
  CASE c = "0" -> 0 [] c = "1" -> 1 [] c = "2" -> 2 [] c = "3" -> 3
    [] c = "4" -> 4 [] c = "5" -> 5 [] c = "6" -> 6 [] c = "7" -> 7
    [] c = "8" -> 8 [] c = "9" -> 9

Micro == 1000 * 1000

RECURSIVE Pow10(_)
Pow10(n) == IF n = 0 THEN 1 ELSE 10 * Pow10(n - 1)

IsPrefixAt(p, s, i) ==
  /\ i >= 1
  /\ i + Len(p) - 1 <= Len(s)
  /\ \A k \in 1..Len(p) : s[i + k - 1] = p[k]

\* first index >= i whose character is not in the class cls (Len(s)+1 if none)
SkipClass(s, i, cls) ==
  LET S == {k \in i..(Len(s) + 1) : k = Len(s) + 1 \/ s[k] \notin cls}
  IN CHOOSE k \in S : \A m \in S : k <= m

\* str.count / bytes.count of a single character
Count(s, c) == Cardinality({k \in 1..Len(s) : s[k] = c})

\* str.replace(a, b) for single characters
Replace(s, a, b) == [k \in 1..Len(s) |-> IF s[k] = a THEN b ELSE s[k]]

\* str.strip() of white space
Strip(s) ==
  LET NonWs == {k \in 1..Len(s) : s[k] \notin Ws}
  IN IF NonWs = {} THEN <<>>
     ELSE LET lo == CHOOSE k \in NonWs : \A m \in NonWs : k <= m
              hi == CHOOSE k \in NonWs : \A m \in NonWs : k >= m
          IN SubSeq(s, lo, hi)

RECURSIVE DecVal(_)
DecVal(ds) ==
  IF Len(ds) = 0 THEN 0
  ELSE 10 * DecVal(SubSeq(ds, 1, Len(ds) - 1)) + DigitVal(ds[Len(ds)])

\* float(text) accepts the text: optional white space around digits with at
\* most one '.', and at least one digit
FloatOk(text) ==
  LET t == Strip(text)
  IN /\ Len(t) > 0
     /\ \A k \in 1..Len(t) : t[k] \in Digit \cup {"."}
     /\ Count(t, ".") <= 1
     /\ \E k \in 1..Len(t) : t[k] \in Digit

\* float(text), in microseconds
FloatMicro(text) ==
  LET t  == Strip(text)
      p  == SkipClass(t, 1, Digit)
      ip == SubSeq(t, 1, p - 1)
      fp == SubSeq(t, p + 1, Len(t))
  IN DecVal(ip) * Micro + DecVal(fp) * Pow10(6 - Len(fp))

\* data.decode(): fails on a byte sequence that is not UTF-8
DecodeOk(data) == \A k \in 1..Len(data) : data[k] # "xFF"

(***************************************************************************)
(* Values returned by parseTimer                                           *)
(***************************************************************************)
TimerOf(v) == [kind |-> "timer", val |-> v, exc |-> ""]

PyInt(n) == [kind |-> "int", val |-> n, exc |-> ""]

Raise(e) == [kind |-> "raise", val |-> 0, exc |-> e]

(***************************************************************************)
(* PCA.parseTimer                                                          *)
(***************************************************************************)
DATASOURCE == <<"d", "a", "t", "a", "s", "o", "u", "r", "c", "e">>

DOTLOAD == <<".", "l", "o", "a", "d", ":">>

MS == <<"m", "s">>

\* \s*(?P<total_time>\d+)\s*ms  matched from index j
PCATailMatch(s, j) ==
  LET k == SkipClass(s, j, Ws)
      l == SkipClass(s, k, Digit)
      m == SkipClass(s, l, Ws)
  IN l > k /\ IsPrefixAt(MS, s, m)

\* <<i, j>>: "datasource" at i, [^\s]* up to j, "\.load:" at j, tail matches
PCAMatchPairs(s) ==
  {p \in (1..Len(s)) \X (1..Len(s)) :
     /\ IsPrefixAt(DATASOURCE, s, p[1])
     /\ p[2] >= p[1] + Len(DATASOURCE)
     /\ \A k \in (p[1] + Len(DATASOURCE))..(p[2] - 1) : s[k] \notin Ws
     /\ IsPrefixAt(DOTLOAD, s, p[2])
     /\ PCATailMatch(s, p[2] + Len(DOTLOAD))}

PCAMatches(s) == PCAMatchPairs(s) # {}

\* the lazy .*? takes the leftmost "datasource", the greedy [^\s]* the
\* rightmost "\.load:" from which the rest matches
PCAGroup(s) ==
  LET P == PCAMatchPairs(s)
      i == CHOOSE a \in {p[1] : p \in P} : \A b \in {p[1] : p \in P} : a <= b
      J == {p[2] : p \in {q \in P : q[1] = i}}
      j == CHOOSE a \in J : \A b \in J : a >= b
      k == SkipClass(s, j + Len(DOTLOAD), Ws)
      l == SkipClass(s, k, Digit)
  IN SubSeq(s, k, l - 1)

PCAparseTimer(data) ==
  IF ~DecodeOk(data) THEN Raise("UnicodeDecodeError")
  ELSE IF ~PCAMatches(data) THEN PyInt(-1)
  ELSE LET g == PCAGroup(data)
       IN IF Count(g, ".") = 1
          THEN IF FloatOk(g) THEN TimerOf(FloatMicro(g) \div 1000)
               ELSE Raise("ValueError")
          ELSE IF FloatOk(Replace(g, ",", "."))
               THEN TimerOf(FloatMicro(Replace(g, ",", ".")) \div 1000)
               ELSE Raise("ValueError")

(***************************************************************************)
(* GMM.parseTimer                                                          *)
(***************************************************************************)
\* In re.VERBOSE the blank of "em: (" is not part of the pattern
EM == <<"e", "m", ":">>

GMMEmStarts(s) ==
  {i \in 1..Len(s) :
     /\ IsPrefixAt(EM, s, i)
     /\ \E j \in (i + Len(EM))..Len(s) : s[j] = "s"}

GMMMatches(s) == GMMEmStarts(s) # {}

\* lazy .*? : leftmost "em:", then up to the first following "s"
GMMGroup(s) ==
  LET I == GMMEmStarts(s)
      i == CHOOSE a \in I : \A b \in I : a <= b
      J == {j \in (i + Len(EM))..Len(s) : s[j] = "s"}
      j == CHOOSE a \in J : \A b \in J : a <= b
  IN SubSeq(s, i + Len(EM), j - 1)

GMMparseTimer(data) ==
  IF ~GMMMatches(data) THEN PyInt(-1)
  ELSE LET g == GMMGroup(data)
       IN IF FloatOk(g) THEN TimerOf(FloatMicro(g)) ELSE Raise("ValueError")

(***************************************************************************)
(* Child processes: subprocess.check_output                                *)
(***************************************************************************)
\* A behaviour of the child: whether it can be launched, how long it runs,
\* its exit status, what it prints and which artifact files it writes.
FileList == {"gmon.out", "gmm.xml"}

NoProc == [launch |-> FALSE, dur |-> 1, exit |-> 0, out |-> <<>>, writes |-> {}]

\* check_output(cmd, stderr=STDOUT, shell=False, timeout=t): the launch
\* failure is raised by Popen; the deadline is now + t, so with t = 0 it has
\* passed as soon as the output is waited for; a nonzero status is raised
\* after the child has ended in time.
CheckOutput(proc, timeout) ==
  IF ~proc.launch THEN "OSError"
  ELSE IF proc.dur > timeout THEN "TimeoutExpired"
  ELSE IF proc.exit # 0 THEN "CalledProcessError"
  ELSE "ok"

\* check_output(cmd, stderr=STDOUT, shell=False), no timeout argument
CheckOutputNoTimeout(proc) ==
  IF ~proc.launch THEN "OSError"
  ELSE IF proc.exit # 0 THEN "CalledProcessError"
  ELSE "ok"

\* except subprocess.TimeoutExpired: return -2 / except Exception: return -1
SentinelSwapped(exc) == IF exc = "TimeoutExpired" THEN -1 ELSE -2

Sentinel(exc) == IF exc = "TimeoutExpired" THEN -2 ELSE -1

(***************************************************************************)
(* Results of a call                                                       *)
(***************************************************************************)
EmptyMap == [k \in {} |-> 0]

NoResult ==
  [raised |-> FALSE, exc |-> "", kind |-> "none", code |-> 0,
   metrics |-> EmptyMap, time |-> 0, execs |-> 0, run |-> "none",
   cmd |-> <<>>, optionsAfter |-> EmptyMap, ignored |-> ""]

NoCall ==
  [op |-> "none", options |-> EmptyMap, proc |-> NoProc, data |-> <<>>,
   files |-> {}, locked |-> {}]

Raised(e, n, r) ==
  [NoResult EXCEPT !.raised = TRUE, !.exc = e, !.execs = n, !.run = r]

(***************************************************************************)
(* PCA.process_options                                                     *)
(***************************************************************************)
Recognized == {"whiten", "new_dimensionality"}

Pop(options, key) == [k \in (DOMAIN options) \ {key} |-> options[k]]

WhitenOpts ==
  <<"-dbc.filter",
    "normalization.columnwise.AttributeWiseVarianceNormalization,transform.GlobalPrincipalComponentAnalysisTransform">>

PlainOpts == <<"-dbc.filter", "transform.GlobalPrincipalComponentAnalysisTransform">>

DimOpts(v) == <<"-globalpca.filter", "FirstNEigenPairFilter", "-pca.filter.n", ToString(v)>>

process_options_nopop(options) ==
  LET o1   == options
      opts == IF "whiten" \in DOMAIN options THEN WhitenOpts ELSE PlainOpts
      hasN == "new_dimensionality" \in DOMAIN o1
      o2   == IF hasN THEN Pop(o1, "new_dimensionality") ELSE o1
      all  == IF hasN THEN opts \o DimOpts(o1["new_dimensionality"]) ELSE opts
  IN IF Cardinality(DOMAIN o2) > 0
     THEN [raised |-> TRUE, opts |-> <<>>, options |-> o2]
     ELSE [raised |-> FALSE, opts |-> all, options |-> o2]

process_options_noraise(options) ==
  LET hasW == "whiten" \in DOMAIN options
      o1   == IF hasW THEN Pop(options, "whiten") ELSE options
      opts == IF hasW THEN WhitenOpts ELSE PlainOpts
      hasN == "new_dimensionality" \in DOMAIN o1
      o2   == IF hasN THEN Pop(o1, "new_dimensionality") ELSE o1
      all  == IF hasN THEN opts \o DimOpts(o1["new_dimensionality"]) ELSE opts
  IN [raised |-> FALSE, opts |-> all, options |-> o2]

process_options(options) ==
  LET hasW == "whiten" \in DOMAIN options
      o1   == IF hasW THEN Pop(options, "whiten") ELSE options
      opts == IF hasW THEN WhitenOpts ELSE PlainOpts
      hasN == "new_dimensionality" \in DOMAIN o1
      o2   == IF hasN THEN Pop(o1, "new_dimensionality") ELSE o1
      all  == IF hasN THEN opts \o DimOpts(o1["new_dimensionality"]) ELSE opts
  IN IF Cardinality(DOMAIN o2) > 0
     THEN [raised |-> TRUE, opts |-> <<>>, options |-> o2]
     ELSE [raised |-> FALSE, opts |-> all, options |-> o2]

PCABaseCmd ==
  <<"java", "-jar", "elki.jar", "cli", "-time", "-dbc.in", "dataset",
    "-algorithm", "NullAlgorithm", "-resulthandler", "DiscardResultHandler">>

(***************************************************************************)
(* shlex.split on text of letters, blanks and single quotes                *)
(***************************************************************************)
RECURSIVE Shlex(_, _, _, _, _, _)
Shlex(s, i, cur, inTok, inQ, acc) ==
  IF i > Len(s)
  THEN IF inQ THEN [err |-> TRUE, toks |-> <<>>]
       ELSE [err |-> FALSE, toks |-> IF inTok THEN Append(acc, cur) ELSE acc]
  ELSE LET c == s[i]
       IN IF inQ
          THEN IF c = "'" THEN Shlex(s, i + 1, cur, TRUE, FALSE, acc)
               ELSE Shlex(s, i + 1, Append(cur, c), TRUE, TRUE, acc)
          ELSE IF c = "'" THEN Shlex(s, i + 1, cur, TRUE, TRUE, acc)
          ELSE IF c \in Ws
               THEN Shlex(s, i + 1, <<>>, FALSE, FALSE,
                          IF inTok THEN Append(acc, cur) ELSE acc)
          ELSE Shlex(s, i + 1, Append(cur, c), TRUE, FALSE, acc)

ShlexSplit(s) == Shlex(s, 1, <<>>, FALSE, FALSE, <<>>)

\* self.path + "gmm -i " + self.dataset + " -v " + options
GMMCmdText(options) ==
  <<"g", "m", "m", " ", "-", "i", " ", "d", " ", "-", "v", " ">> \o options

(***************************************************************************)
(* Benchmark objects                                                       *)
(***************************************************************************)
NoObj == [cls |-> "none", timeout |-> 0, descSet |-> FALSE, description |-> <<>>]

REQUIRED == <<"R", "e", "q", "u", "i", "r", "e", "d">>

OPTIONS == <<"o", "p", "t", "i", "o", "n", "s", ":">>

\* (.*?)Required.*?options:
HelpStarts(s) ==
  {i \in 1..Len(s) :
     /\ IsPrefixAt(REQUIRED, s, i)
     /\ \E j \in (i + Len(REQUIRED))..Len(s) : IsPrefixAt(OPTIONS, s, j)}

HelpGroup(s) ==
  LET I == HelpStarts(s)
      i == CHOOSE a \in I : \A b \in I : a <= b
  IN SubSeq(s, 1, i - 1)

\* truth value of "not timer": an int is false only when 0, a namedtuple
\* with one field is never empty
PyNot(t) == IF t.kind = "int" THEN t.val = 0 ELSE FALSE

\* GetTime(timer): timer.em
GetTime(t) == IF t.kind = "timer" THEN TimerOf(t.val) ELSE Raise("AttributeError")

(***************************************************************************)
(* Inputs                                                                  *)
(***************************************************************************)
Timeouts == 0..MaxTimeout

Keys == Recognized \cup {"k"}

Values == 1..MaxVal

Dicts == UNION {[K -> Values] : K \in SUBSET Keys}

PCALine == DATASOURCE \o DOTLOAD \o <<" ", "1", "5", "0", "0", " ">> \o MS

GMMLine == EM \o <<" ", "0", ".", "7", "3", "4", "s">>

GMMCommaLine == EM \o <<" ", "1", ",", "5", "s">>

SampleOutputs == {PCALine, GMMLine, GMMCommaLine, <<"x">>, <<"xFF">>}

Behaviours(writeSets) ==
  {[launch |-> FALSE, dur |-> 1, exit |-> 0, out |-> <<>>, writes |-> {}]}
  \cup {[launch |-> TRUE, dur |-> d, exit |-> 1, out |-> <<>>, writes |-> w] :
          d \in 1..MaxDur, w \in writeSets}
  \cup {[launch |-> TRUE, dur |-> d, exit |-> 0, out |-> o, writes |-> w] :
          d \in 1..MaxDur, o \in SampleOutputs, w \in writeSets}

HelpText == <<"G", "M", "M", "\n">> \o REQUIRED \o <<" ">> \o OPTIONS

HelpSamples == {HelpText, <<"u", "s", "a", "g", "e">>}

Probes ==
  {[launch |-> FALSE, dur |-> 1, exit |-> 0, out |-> <<>>, writes |-> {}],
   [launch |-> TRUE, dur |-> 1, exit |-> 1, out |-> <<>>, writes |-> {}]}
  \cup {[launch |-> TRUE, dur |-> 1, exit |-> 0, out |-> h, writes |-> {}] :
          h \in HelpSamples}

OptionStrings == {<<>>, <<"-", "g", " ", "3">>, <<"'", "a">>}

(***************************************************************************)
(* PCA                                                                     *)
(***************************************************************************)
Init ==
  /\ obj = NoObj
  /\ fs = [f \in FileList |-> FALSE]
  /\ call = NoCall
  /\ result = NoResult

\* PCA.__init__(dataset, timeout)
PCAInit(timeout) ==
  /\ obj.cls = "none"
  /\ obj' = [cls |-> "PCA", timeout |-> timeout, descSet |-> FALSE,
             description |-> <<>>]
  /\ call' = [NoCall EXCEPT !.op = "PCA.__init__"]
  /\ result' = NoResult
  /\ UNCHANGED fs

\* the PCA object goes out of scope; the class has no destructor
PCARelease ==
  /\ obj.cls = "PCA"
  /\ obj' = NoObj
  /\ call' = [NoCall EXCEPT !.op = "PCA.release"]
  /\ result' = NoResult
  /\ UNCHANGED fs

\* a direct call of PCA.process_options(options)
PCAProcessOptions(options) ==
  /\ obj.cls = "PCA"
  /\ LET po == process_options(options)
     IN result' = [NoResult EXCEPT !.raised = po.raised,
                                   !.exc = IF po.raised THEN "Exception" ELSE "",
                                   !.kind = IF po.raised THEN "none" ELSE "command",
                                   !.cmd = po.opts,
                                   !.optionsAfter = po.options]
  /\ call' = [NoCall EXCEPT !.op = "PCA.process_options", !.options = options]
  /\ UNCHANGED <<obj, fs>>

PCARunMetricsResult(options, proc, timeout) ==
  LET po == process_options(options)
  IN IF po.raised
     THEN [Raised("Exception", 0, "none") EXCEPT !.optionsAfter = po.options]
     ELSE LET cmd  == PCABaseCmd \o po.opts
              run  == CheckOutput(proc, timeout)
              base == [NoResult EXCEPT !.execs = 1, !.run = run, !.cmd = cmd,
                                       !.optionsAfter = po.options]
          IN IF run # "ok"
             THEN [base EXCEPT !.kind = "sentinel", !.code = Sentinel(run)]
             ELSE LET timer == PCAparseTimer(proc.out)
                  IN IF timer.kind = "raise"
                     THEN [base EXCEPT !.raised = TRUE, !.exc = timer.exc]
                     ELSE IF ~(timer.kind = "int" /\ timer.val = -1)
                     THEN [base EXCEPT !.kind = "metrics",
                                       !.metrics = [m \in {"Runtime"} |-> timer.val]]
                     ELSE [base EXCEPT !.kind = "metrics", !.metrics = EmptyMap]

\* PCA.RunMetrics(options)
PCARunMetrics(options, proc) ==
  /\ obj.cls = "PCA"
  /\ result' = PCARunMetricsResult(options, proc, obj.timeout)
  /\ call' = [NoCall EXCEPT !.op = "PCA.RunMetrics", !.options = options,
                            !.proc = proc]
  /\ UNCHANGED <<obj, fs>>

(***************************************************************************)
(* GMM                                                                     *)
(***************************************************************************)
\* GMM.__init__(dataset, timeout): the help probe runs without a timeout
GMMInit(timeout, probe) ==
  /\ obj.cls = "none"
  /\ LET run == CheckOutputNoTimeout(probe)
     IN obj' = IF run # "ok"
               THEN [cls |-> "GMM", timeout |-> timeout, descSet |-> FALSE,
                     description |-> <<>>]
               ELSE [cls |-> "GMM", timeout |-> timeout, descSet |-> TRUE,
                     description |-> IF HelpStarts(probe.out) = {} THEN <<>>
                                     ELSE HelpGroup(probe.out)]
  /\ call' = [NoCall EXCEPT !.op = "GMM.__init__", !.proc = probe]
  /\ result' = [NoResult EXCEPT !.execs = 1, !.run = CheckOutputNoTimeout(probe)]
  /\ UNCHANGED fs

GMMRunTimingResult(options, proc, timeout) ==
  LET sp == ShlexSplit(GMMCmdText(options))
  IN IF sp.err THEN Raised("ValueError", 0, "none")
     ELSE LET run  == CheckOutput(proc, timeout)
              base == [NoResult EXCEPT !.execs = 1, !.run = run, !.cmd = sp.toks]
          IN IF run # "ok"
             THEN [base EXCEPT !.kind = "sentinel", !.code = Sentinel(run)]
             ELSE LET timer == GMMparseTimer(proc.out)
                  IN IF timer.kind = "raise"
                     THEN [base EXCEPT !.raised = TRUE, !.exc = timer.exc]
                     ELSE IF PyNot(timer)
                     THEN [base EXCEPT !.kind = "sentinel", !.code = -1]
                     ELSE LET time == GetTime(timer)
                          IN IF time.kind = "raise"
                             THEN [base EXCEPT !.raised = TRUE, !.exc = time.exc]
                             ELSE [base EXCEPT !.kind = "time", !.time = time.val]

\* GMM.RunTiming(options); a launched child may write its artifact files
GMMRunTiming(options, proc) ==
  /\ obj.cls = "GMM"
  /\ result' = GMMRunTimingResult(options, proc, obj.timeout)
  /\ fs' = IF ShlexSplit(GMMCmdText(options)).err \/ ~proc.launch THEN fs
           ELSE [f \in FileList |-> fs[f] \/ f \in proc.writes]
  /\ call' = [NoCall EXCEPT !.op = "GMM.RunTiming", !.options = options,
                            !.proc = proc]
  /\ UNCHANGED obj

ArtifactListShort == <<"gmon.out">>

\* filelist = ["gmon.out", "gmm.xml"]
ArtifactList == <<"gmon.out", "gmm.xml">>

\* for f in filelist: if os.path.isfile(f): os.remove(f)
\* locked: the files whose os.remove fails; the OSError ends the loop
RECURSIVE DelLoop(_, _, _, _)
DelLoop(list, i, files, locked) ==
  IF i > Len(list) THEN [fs |-> files, exc |-> ""]
  ELSE IF ~files[list[i]] THEN DelLoop(list, i + 1, files, locked)
  ELSE IF list[i] \in locked THEN [fs |-> files, exc |-> "OSError"]
  ELSE DelLoop(list, i + 1, [files EXCEPT ![list[i]] = FALSE], locked)

\* GMM.__del__: an exception that leaves __del__ is printed and dropped by
\* the interpreter, it does not reach the code that released the object
GMMDel(locked) ==
  /\ obj.cls = "GMM"
  /\ LET d == DelLoop(ArtifactList, 1, fs, locked)
     IN /\ fs' = d.fs
        /\ result' = [NoResult EXCEPT !.ignored = d.exc]
  /\ call' = [NoCall EXCEPT !.op = "GMM.__del__",
                            !.files = {f \in FileList : fs[f]},
                            !.locked = locked \cap {f \in FileList : fs[f]}]
  /\ obj' = NoObj

Next ==
  \/ \E t \in Timeouts : PCAInit(t)
  \/ PCARelease
  \/ \E o \in Dicts : PCAProcessOptions(o)
  \/ \E o \in Dicts, p \in Behaviours({{}}) : PCARunMetrics(o, p)
  \/ \E t \in Timeouts, p \in Probes : GMMInit(t, p)
  \/ \E o \in OptionStrings, p \in Behaviours(SUBSET FileList) : GMMRunTiming(o, p)
  \/ \E l \in SUBSET FileList : GMMDel(l)

Spec == Init /\ [][Next]_vars

(***************************************************************************)
(* The parsers applied to bounded outputs                                  *)
(***************************************************************************)
NumChars == {"1", "5", ".", ","}

NumTexts ==
  UNION {[1..n -> NumChars] : n \in 0..MaxNumLen}
  \cup {<<"1", "5", "0", "0">>, <<"0", ".", "7", "3", "4">>}

Pres == {<<>>, <<"x", "\n">>}

Sps == {<<>>, <<" ">>}

PCAData(pre, sp, num) == pre \o DATASOURCE \o DOTLOAD \o sp \o num \o sp \o MS

GMMData(pre, sp, num) == pre \o EM \o sp \o num \o <<"s">>

TotalTimeMs ==
  <<"t", "o", "t", "a", "l", " ", "t", "i", "m", "e", ":", " ",
    "1", "5", "0", "0", " ", "m", "s">>

TotalTimeComma ==
  <<"t", "o", "t", "a", "l", " ", "t", "i", "m", "e", ":", " ",
    "1", ",", "5", "s">>

Outputs ==
  {PCAData(pre, sp, n) : pre \in Pres, sp \in Sps, n \in NumTexts}
  \cup {GMMData(pre, sp, n) : pre \in Pres, sp \in Sps, n \in NumTexts}
  \cup {<<>>, <<"xFF">>, TotalTimeMs, TotalTimeComma}

InitParse ==
  /\ obj = NoObj
  /\ fs = [f \in FileList |-> FALSE]
  /\ call \in {[NoCall EXCEPT !.op = "data", !.data = d] : d \in Outputs}
  /\ result = NoResult

ParseResult(timer) ==
  [NoResult EXCEPT !.raised = (timer.kind = "raise"), !.exc = timer.exc,
                   !.kind = timer.kind, !.code = IF timer.kind = "int" THEN timer.val ELSE 0,
                   !.time = IF timer.kind = "timer" THEN timer.val ELSE 0]

\* PCA.parseTimer(data)
PCAParseTimerCall ==
  /\ call.op \in {"data", "PCA.parseTimer", "GMM.parseTimer"}
  /\ result' = ParseResult(PCAparseTimer(call.data))
  /\ call' = [call EXCEPT !.op = "PCA.parseTimer"]
  /\ UNCHANGED <<obj, fs>>

\* GMM.parseTimer(data)
GMMParseTimerCall ==
  /\ call.op \in {"data", "PCA.parseTimer", "GMM.parseTimer"}
  /\ result' = ParseResult(GMMparseTimer(call.data))
  /\ call' = [call EXCEPT !.op = "GMM.parseTimer"]
  /\ UNCHANGED <<obj, fs>>

NextParse == PCAParseTimerCall \/ GMMParseTimerCall

SpecParse == InitParse /\ [][NextParse]_vars

(***************************************************************************)
(* Properties                                                              *)
(***************************************************************************)
Runs == {"PCA.RunMetrics", "GMM.RunTiming"}

\* the child ended within the timeout with exit status 0
FinishedOk(proc, timeout) == proc.launch /\ proc.dur <= timeout /\ proc.exit = 0

\* the child was still running when the timeout passed
TimedOut(proc, timeout) == proc.launch /\ proc.dur > timeout

\* the child could not be launched or ended in time with a nonzero status
FailedOtherwise(proc, timeout) ==
  ~proc.launch \/ (proc.dur <= timeout /\ proc.exit # 0)

\* C1: PCA.RunMetrics returns a Metrics Map holding "Runtime" if and only if
\* the process finished within the timeout with status 0 and the timer
\* pattern matched its output; on every other path it returns a negative
\* sentinel, never an empty or partial Metrics Map.
C1_MetricsIffSuccess ==
  (call.op = "PCA.RunMetrics" /\ DOMAIN call.options \subseteq Recognized) =>
    LET ok == FinishedOk(call.proc, obj.timeout) /\ PCAMatches(call.proc.out)
    IN /\ ok => (~result.raised /\ result.kind = "metrics"
                 /\ DOMAIN result.metrics = {"Runtime"})
       /\ ~ok => (~result.raised /\ result.kind = "sentinel" /\ result.code < 0)

\* C2: PCA.RunMetrics and GMM.RunTiming always end by returning a value,
\* never by raising, whatever the options, the process outcome and the output.
C2_NeverRaises == call.op \in Runs => ~result.raised

\* C3: with an options map holding a key outside the recognized table,
\* process_options raises the unknown-parameters fault and produces no
\* command, and RunMetrics with such a map executes no process.
C3_UnrecognizedOptionFault ==
  (call.op \in {"PCA.process_options", "PCA.RunMetrics"}
   /\ ~(DOMAIN call.options \subseteq Recognized)) =>
    /\ result.raised
    /\ result.exc = "Exception"
    /\ result.cmd = <<>>
    /\ result.kind = "none"
    /\ result.execs = 0
    /\ result.run = "none"

C3_Witness ==
  /\ call.op = "PCA.RunMetrics"
  /\ "k" \in DOMAIN call.options
  /\ "whiten" \in DOMAIN call.options
  /\ result.raised
  /\ result.execs = 0

\* C4: with an options map whose keys are all recognized, process_options
\* does not fail, returns a command and leaves the map empty.
C4_RecognizedOptionsConsumed ==
  (call.op = "PCA.process_options" /\ DOMAIN call.options \subseteq Recognized) =>
    /\ ~result.raised
    /\ result.kind = "command"
    /\ Len(result.cmd) >= 2
    /\ DOMAIN result.optionsAfter = {}

C4_Witness ==
  /\ call.op = "PCA.process_options"
  /\ DOMAIN call.options = Recognized
  /\ ~result.raised
  /\ DOMAIN result.optionsAfter = {}
  /\ Len(result.cmd) = 6

C6_ZeroTimeoutUnbounded ==
  (call.op \in Runs /\ obj.timeout = 0) =>
    ~(result.kind = "sentinel" /\ result.code = -2)

\* C7: after GMM construction the description is defined: the text captured
\* from the help output when the probe succeeded and matched, and the empty
\* string when the probe failed or did not match.
C7_DescriptionDefined ==
  call.op = "GMM.__init__" =>
    /\ obj.cls = "GMM"
    /\ obj.descSet
    /\ obj.description =
         IF CheckOutputNoTimeout(call.proc) = "ok" /\ HelpStarts(call.proc.out) # {}
         THEN HelpGroup(call.proc.out) ELSE <<>>

IsNumeral(n) ==
  /\ Len(n) > 0
  /\ \A k \in 1..Len(n) : n[k] \in Digit \cup {".", ","}
  /\ Count(n, ".") + Count(n, ",") <= 1
  /\ n[1] \in Digit
  /\ n[Len(n)] \in Digit

NumeralMicro(n) == FloatMicro(Replace(n, ",", "."))

\* C9: on every output that matches the timer pattern the parser does not
\* fail and returns the value in seconds; milliseconds are divided by 1000,
\* and a numeral written with ',' or with '.' is accepted by PCA.parseTimer
\* and by GMM.parseTimer and converted to the same value.
C9_NumericNormalization ==
  /\ (call.op = "PCA.parseTimer" /\ DecodeOk(call.data) /\ PCAMatches(call.data))
       => result.kind = "timer"
  /\ (call.op = "GMM.parseTimer" /\ GMMMatches(call.data))
       => result.kind = "timer"
  /\ \A pre \in Pres, sp \in Sps, n \in {t \in NumTexts : IsNumeral(t)} :
       /\ (call.op = "PCA.parseTimer" /\ call.data = PCAData(pre, sp, n))
            => (result.kind = "timer" /\ result.time = NumeralMicro(n) \div 1000)
       /\ (call.op = "GMM.parseTimer" /\ call.data = GMMData(pre, sp, n))
            => (result.kind = "timer" /\ result.time = NumeralMicro(n))

\* C10: when the child succeeds and its output does not match the timer
\* pattern GMM.RunTiming returns -1; when the output is "em: 0.734s" it
\* returns 0.734.
C10_ParseFailureSentinel ==
  (call.op = "GMM.RunTiming" /\ result.run = "ok") =>
    /\ ~GMMMatches(call.proc.out)
         => (~result.raised /\ result.kind = "sentinel" /\ result.code = -1)
    /\ call.proc.out = GMMLine
         => (~result.raised /\ result.kind = "time" /\ result.time = 734000)

====
